---- MODULE Spec2Model ----
(***************************************************************************)
(* The /ask-ai request pipeline of the AI Python Teacher backend:          *)
(* request validation (app.ask_ai), prompt construction                    *)
(* (build_tutor_prompt), the provider call with retry and backoff          *)
(* (gemini_ai.generate_response and its twin app._gemini_generate) and the *)
(* output sanitizer (sanitize_tutor_output).                               *)
(*                                                                         *)
(* Strings are sequences of tokens.  Short strings (question, topic,       *)
(* level) are sequences of one-character strings.  Model output is a       *)
(* sequence over the token alphabet                                        *)
(*   "F"  a ``` fence marker          "N"  a newline                       *)
(*   "w"  a word character ([\w+-])   "sp" a blank                         *)
(*   "x", "y"  two other characters   "S"  a suspicious line start         *)
(*   "OMIT"/"TRUNC"  the two fixed messages of the sanitizer (one line     *)
(*   each, no fence, no newline, not starting with a suspicious prefix).   *)
(* The code field is the string 'x' * n, held as its length n.             *)
(***************************************************************************)
EXTENDS Integers, Sequences, FiniteSets, TLC

\* ------------------------------------------------------------------ bounds
\* Number of request slots of the server.
NumReqs == 2

\* ------------------------------------------------------- program constants
RETRY_DELAYS_S == <<1, 2, 4, 8, 16>>
MaxCodeLen == 80000
MAX_CODE_BLOCK_LINES == 8
SUSPICIOUS_LINE_THRESHOLD == 12
MAX_OUTPUT_LINES == 120
RetryStatuses == {429, 500, 502, 503, 504}

Reqs == 1..NumReqs

\* Python's None where a sequence-valued string is expected.
None == <<"<None>">>

\* Python's None where the code ('x' * n, held as n) is expected.
NoCode == -1

Min(a, b) == IF a <= b THEN a ELSE b

\* ------------------------------------------------------ string primitives
\* str.strip() / str.lstrip() for a set of blank tokens.
RECURSIVE lstripOf(_, _)
lstripOf(s, blanks) ==
    IF s # <<>> /\ Head(s) \in blanks THEN lstripOf(Tail(s), blanks) ELSE s

RECURSIVE rstripOf(_, _)
rstripOf(s, blanks) ==
    IF s # <<>> /\ s[Len(s)] \in blanks
    THEN rstripOf(SubSeq(s, 1, Len(s) - 1), blanks) ELSE s

\* Whitespace characters: a space and a tab.
Blanks == {" ", "\t"}
strip(s) == rstripOf(lstripOf(s, Blanks), Blanks)

UpperChars == <<"A", "B", "C", "D", "E", "G", "I", "M", "N", "R", "T", "V">>
LowerChars == <<"a", "b", "c", "d", "e", "g", "i", "m", "n", "r", "t", "v">>

lowerChar(c) ==
    IF \E i \in 1..Len(UpperChars) : UpperChars[i] = c
    THEN LowerChars[CHOOSE i \in 1..Len(UpperChars) : UpperChars[i] = c]
    ELSE c

lower(s) == [i \in 1..Len(s) |-> lowerChar(s[i])]

\* `x or default` for an optional string: None and "" are falsy.
OrElse(x, default) == IF x = None \/ x = <<>> THEN default ELSE x

\* -------------------------------------------------------- prompt builder
Beginner == <<"b", "e", "g", "i", "n", "n", "e", "r">>
Intermediate == <<"i", "n", "t", "e", "r", "m", "e", "d", "i", "a", "t", "e">>
Advanced == <<"a", "d", "v", "a", "n", "c", "e", "d">>
Unspecified == <<"(", "u", "n", "s", "p", "e", "c", "i", "f", "i", "e", "d", ")">>
Levels == {Beginner, Intermediate, Advanced}

\* The fixed text of the template, in order, with the four interpolated slots.
PromptTemplate ==
    <<"STRICT TUTOR MODE", "- Topic: ", "slot:topic", "- Level: ", "slot:level",
      "Student code:", "slot:code", "Student question:", "slot:question",
      "Required response format", "Diagnosis", "Why it happens", "Hints",
      "Check yourself", "Next small step">>

\* A variant that does not lower-case the level.
level_norm_NoLower(level) ==
    LET l == strip(OrElse(level, Beginner))
    IN IF l \notin Levels THEN Beginner ELSE l

level_norm(level) ==
    LET l == lower(strip(OrElse(level, Beginner)))
    IN IF l \notin Levels THEN Beginner ELSE l

\* A variant that trims the question.
build_tutor_prompt_Trimmed(topic, code, question, level) ==
    [topic |-> OrElse(topic, Unspecified),
     level |-> level_norm(level),
     code |-> IF code = NoCode THEN 0 ELSE code,
     question |-> strip(question)]

\* The f-string: the values written into the slots of PromptTemplate.
build_tutor_prompt(topic, code, question, level) ==
    [topic |-> OrElse(topic, Unspecified),
     level |-> level_norm(level),
     code |-> IF code = NoCode THEN 0 ELSE code,
     question |-> question]

RECURSIVE Flatten(_)
Flatten(ss) == IF ss = <<>> THEN <<>> ELSE Head(ss) \o Flatten(Tail(ss))

\* The string the f-string evaluates to: each piece of fixed text is one
\* token, each slot is the characters of its value (the code is 'x' * n).
RenderPrompt(p) ==
    Flatten([i \in 1..Len(PromptTemplate) |->
        IF PromptTemplate[i] = "slot:topic" THEN p.topic
        ELSE IF PromptTemplate[i] = "slot:level" THEN p.level
        ELSE IF PromptTemplate[i] = "slot:code" THEN [k \in 1..p.code |-> "x"]
        ELSE IF PromptTemplate[i] = "slot:question" THEN p.question
        ELSE <<PromptTemplate[i]>>])

\* ------------------------------------------------------- output sanitizer
OmitMsg == <<"OMIT">>
TruncMsg == <<"TRUNC">>

\* The first position >= i of token c in t, 0 when there is none.
IndexFrom(t, c, i) ==
    IF \E j \in i..Len(t) : t[j] = c
    THEN CHOOSE j \in i..Len(t) : t[j] = c /\ \A k \in i..(j - 1) : t[k] # c
    ELSE 0

\* The last position < i of token c in t, 0 when there is none.
LastIndexBefore(t, c, i) ==
    IF \E j \in 1..(i - 1) : t[j] = c
    THEN CHOOSE j \in 1..(i - 1) : t[j] = c /\ \A k \in (j + 1)..(i - 1) : t[k] # c
    ELSE 0

RECURSIVE splitlines(_)
\* str.splitlines(): every newline ends a line, text after the last newline is
\* a line of its own. The text is cut at an inner newline near its middle and
\* the lines of the two parts are concatenated.
splitlines(t) ==
    IF t = <<>> THEN <<>>
    ELSE LET m == (Len(t) \div 2) + 1
             a == IndexFrom(t, "N", m)
             k == IF a # 0 /\ a < Len(t) THEN a ELSE LastIndexBefore(t, "N", m)
         IN IF k = 0
            THEN <<IF t[Len(t)] = "N" THEN SubSeq(t, 1, Len(t) - 1) ELSE t>>
            ELSE splitlines(SubSeq(t, 1, k)) \o splitlines(SubSeq(t, k + 1, Len(t)))

RECURSIVE join(_)
\* "\n".join(lines), joined half by half
join(lines) ==
    IF lines = <<>> THEN <<>>
    ELSE IF Len(lines) = 1 THEN lines[1]
    ELSE LET h == Len(lines) \div 2
         IN join(SubSeq(lines, 1, h)) \o <<"N">> \o join(SubSeq(lines, h + 1, Len(lines)))

RECURSIVE LangEnd(_, _)
\* The position after the longest run of word characters starting at i.
LangEnd(t, i) == IF i <= Len(t) /\ t[i] = "w" THEN LangEnd(t, i + 1) ELSE i

\* _CODEBLOCK_RE anchored at i: ``` then an optional language tag then a newline.
\* The position where the block body starts, 0 when the opener does not match.
BodyStart(t, i) ==
    IF t[i] # "F" THEN 0
    ELSE LET e == LangEnd(t, i + 1)
         IN IF e <= Len(t) /\ t[e] = "N" THEN e + 1 ELSE 0

\* A variant that also replaces a block of exactly MAX_CODE_BLOCK_LINES lines.
_replace_block_AtLeast(whole, body) ==
    IF Len(splitlines(body)) >= MAX_CODE_BLOCK_LINES THEN OmitMsg ELSE whole

\* The replacement of one matched block (whole: match.group(0), body: group(1)).
_replace_block(whole, body) ==
    IF Len(splitlines(body)) > MAX_CODE_BLOCK_LINES THEN OmitMsg ELSE whole

RECURSIVE SubBlocks(_, _)
\* _CODEBLOCK_RE.sub(_replace_block, t) on the suffix of t that starts at i:
\* leftmost match, lazy body up to the next fence, scan resumes after the match.
\* A match can only start at a fence, so the text before the next fence is
\* copied as it is.
SubBlocks(t, i) ==
    LET f == IndexFrom(t, "F", i)
    IN IF f = 0 THEN SubSeq(t, i, Len(t))
       ELSE LET b == BodyStart(t, f)
                j == IF b = 0 THEN 0 ELSE IndexFrom(t, "F", b)
            IN SubSeq(t, i, f - 1) \o
               (IF j # 0
                THEN _replace_block(SubSeq(t, f, j), SubSeq(t, b, j - 1))
                         \o SubBlocks(t, j + 1)
                ELSE <<t[f]>> \o SubBlocks(t, f + 1))

IsSuspicious(ln) ==
    LET s == lstripOf(ln, {"sp"}) IN s # <<>> /\ s[1] = "S"

CountSuspicious(lines) == Cardinality({i \in 1..Len(lines) : IsSuspicious(lines[i])})

\* A variant that truncates only above the threshold.
sanitize_tutor_output_Above(text) ==
    IF text = None \/ text = <<>> THEN text
    ELSE LET text2 == SubBlocks(text, 1)
             lines == splitlines(text2)
         IN IF CountSuspicious(lines) > SUSPICIOUS_LINE_THRESHOLD
            THEN join(SubSeq(lines, 1, Min(MAX_OUTPUT_LINES, Len(lines))))
                     \o <<"N", "N">> \o TruncMsg
            ELSE text2

\* A variant that counts the suspicious lines of the text it was given.
sanitize_tutor_output_CountOriginal(text) ==
    IF text = None \/ text = <<>> THEN text
    ELSE LET text2 == SubBlocks(text, 1)
             lines == splitlines(text2)
         IN IF CountSuspicious(splitlines(text)) >= SUSPICIOUS_LINE_THRESHOLD
            THEN join(SubSeq(lines, 1, Min(MAX_OUTPUT_LINES, Len(lines))))
                     \o <<"N", "N">> \o TruncMsg
            ELSE text2

\* A variant that appends the notice without cutting the text.
sanitize_tutor_output_Uncut(text) ==
    IF text = None \/ text = <<>> THEN text
    ELSE LET text2 == SubBlocks(text, 1)
             lines == splitlines(text2)
         IN IF CountSuspicious(lines) >= SUSPICIOUS_LINE_THRESHOLD
            THEN join(lines) \o <<"N", "N">> \o TruncMsg
            ELSE text2

sanitize_tutor_output(text) ==
    IF text = None \/ text = <<>> THEN text
    ELSE LET text2 == SubBlocks(text, 1)
             lines == splitlines(text2)
         IN IF CountSuspicious(lines) >= SUSPICIOUS_LINE_THRESHOLD
            THEN join(SubSeq(lines, 1, Min(MAX_OUTPUT_LINES, Len(lines))))
                     \o <<"N", "N">> \o TruncMsg
            ELSE text2

\* ---------------------------------------------------------- error details
\* The dict recorded in last_err; absent keys are "absent" (status: 0).
\*   body: "json" (resp.json()) or "text" ({"text": resp.text[:2000]}), raw provider data
\*   raw: "data" when the provider's parsed envelope is attached
\*   exception: the class of the exception whose str() is attached
ErrDetail(message, status, body, raw, exception) ==
    [isNone |-> FALSE, message |-> message, status |-> status, body |-> body,
     raw |-> raw, exception |-> exception]

NoErr ==
    [isNone |-> TRUE, message |-> "", status |-> 0, body |-> "absent",
     raw |-> "absent", exception |-> "absent"]

MissingKeyErr == ErrDetail("Missing GEMINI_API_KEY in environment.", 0, "absent", "absent", "absent")
EmptyErr == ErrDetail("Empty response from Gemini.", 0, "absent", "data", "absent")
ParseErr(exc) == ErrDetail("Failed to parse Gemini response.", 0, "absent", "absent", exc)
HttpErr(status, body) == ErrDetail("Gemini HTTP error", status, body, "absent", "absent")
TimeoutErr == ErrDetail("Gemini request timed out.", 0, "absent", "absent", "absent")
RequestFailedErr(exc) == ErrDetail("Gemini request failed.", 0, "absent", "absent", exc)
UnknownErr == ErrDetail("Unknown Gemini failure.", 0, "absent", "absent", "absent")

\* ------------------------------------------------- the provider's outcomes
\* Sample model outputs (non-empty).
Rep(s, n) == [i \in 1..(n * Len(s)) |-> s[((i - 1) % Len(s)) + 1]]

CodeBlock(n) == <<"F", "w", "N">> \o Rep(<<"w", "N">>, n) \o <<"F">>

Texts ==
    { <<"w", "sp", "w">>,
      <<"w", "N">> \o CodeBlock(2) \o <<"N", "w">>,
      <<"w", "N">> \o CodeBlock(MAX_CODE_BLOCK_LINES + 1) \o <<"N", "w">>,
      Rep(<<"S", "w", "N">>, SUSPICIOUS_LINE_THRESHOLD) }

ErrStatuses == {401, 404} \cup RetryStatuses

Outcome(kind, status, shape, text) ==
    [kind |-> kind, status |-> status, shape |-> shape, text |-> text]

NoOutcome == Outcome("none", 0, "-", <<>>)

\* What one session.post() can end in: a timeout, a connection failure, or a
\* response with a status and a body.  Body shapes of a 200:
\*   notjson       the body is not JSON
\*   nonobject     JSON that is no object (data.get fails)
\*   nocandidates  no or empty "candidates" ([][0] fails)
\*   noparts       no content / parts, or parts without text
\*   badparttext   a part whose "text" is no string ("".join fails)
\*   text          the generated text
Outcomes ==
    {Outcome("timeout", 0, "-", <<>>), Outcome("connfail", 0, "-", <<>>)}
    \cup {Outcome("http", s, sh, <<>>) : s \in ErrStatuses, sh \in {"notjson", "json"}}
    \cup {Outcome("http", 200, sh, <<>>) :
            sh \in {"notjson", "nonobject", "nocandidates", "noparts", "badparttext"}}
    \cup {Outcome("http", 200, "text", t) : t \in Texts}

\* --------------------------------------------- model outputs by structure
\* A model output laid out as
\*   pre prose lines, block 1, susp suspicious prose lines, mid prose lines, block 2
\* where a block has n body lines of which the first s are suspicious (indented).
\* Block 1 is tagged "w" and its body is made of "x"; block 2 is tagged "ww"
\* and its body is made of "y", so each block's lines are its own.
FencedBlock(n, s) == [on |-> TRUE, n |-> n, s |-> s]
NoBlock == [on |-> FALSE, n |-> 0, s |-> 0]

SanCase(pre, b1, susp, mid, b2) ==
    [pre |-> pre, b1 |-> b1, susp |-> susp, mid |-> mid, b2 |-> b2]
NoSanCase == SanCase(0, NoBlock, 0, 0, NoBlock)

ProseLines(k) == Rep(<<"w", "sp", "w", "N">>, k)
SuspLines(k) == Rep(<<"S", "w", "N">>, k)
BodyLines(b, c) == Rep(<<"sp", "S", c, "N">>, b.s) \o Rep(<<c, "N">>, b.n - b.s)
BlockText(b, tag, c) ==
    IF b.on THEN <<"F">> \o tag \o <<"N">> \o BodyLines(b, c) \o <<"F", "N">> ELSE <<>>
Block1Text(c) == BlockText(c.b1, <<"w">>, "x")
Block2Text(c) == BlockText(c.b2, <<"w", "w">>, "y")

SanText(c) ==
    ProseLines(c.pre) \o Block1Text(c) \o SuspLines(c.susp) \o ProseLines(c.mid)
        \o Block2Text(c)

SanCases ==
    { SanCase(pre, b1, susp, mid, b2) :
        pre \in {0, 1},
        b1 \in {NoBlock, FencedBlock(0, 0),
                FencedBlock(MAX_CODE_BLOCK_LINES, 0),
                FencedBlock(MAX_CODE_BLOCK_LINES, MAX_CODE_BLOCK_LINES),
                FencedBlock(MAX_CODE_BLOCK_LINES + 1, 0),
                FencedBlock(MAX_CODE_BLOCK_LINES + 1, MAX_CODE_BLOCK_LINES + 1),
                FencedBlock(SUSPICIOUS_LINE_THRESHOLD, SUSPICIOUS_LINE_THRESHOLD)},
        susp \in {0,
                  SUSPICIOUS_LINE_THRESHOLD - MAX_CODE_BLOCK_LINES - 1,
                  SUSPICIOUS_LINE_THRESHOLD - MAX_CODE_BLOCK_LINES,
                  SUSPICIOUS_LINE_THRESHOLD - 1,
                  SUSPICIOUS_LINE_THRESHOLD},
        mid \in {0, MAX_OUTPUT_LINES - SUSPICIOUS_LINE_THRESHOLD - 3, MAX_OUTPUT_LINES},
        b2 \in {NoBlock, FencedBlock(2, 0), FencedBlock(MAX_CODE_BLOCK_LINES + 1, 1)} }

\* ------------------------------------------------ levels by construction
\* A level written as lpad blanks, a base word in some casing, rpad blanks;
\* base None is Python's None.
upperChar(c) ==
    IF \E i \in 1..Len(LowerChars) : LowerChars[i] = c
    THEN UpperChars[CHOOSE i \in 1..Len(LowerChars) : LowerChars[i] = c]
    ELSE c

Cased(w, casing) ==
    [i \in 1..Len(w) |->
        IF casing = "upper" \/ (casing = "title" /\ i = 1) THEN upperChar(w[i]) ELSE w[i]]

Pad(n) == [i \in 1..n |-> IF i % 2 = 1 THEN " " ELSE "\t"]

LevelCase(base, casing, lpad, rpad) ==
    [base |-> base, casing |-> casing, lpad |-> lpad, rpad |-> rpad]
NoLevelCase == LevelCase(None, "lower", 0, 0)

LevelText(lc) ==
    IF lc.base = None THEN None
    ELSE Pad(lc.lpad) \o Cased(lc.base, lc.casing) \o Pad(lc.rpad)

LevelBases ==
    Levels \cup { <<>>, <<"n", "a">>, <<"b", "e", "g">>, Advanced \o <<"!">>,
                  <<"a", "d", " ", "v", "a", "n", "c", "e", "d">> }

LevelCases ==
    {NoLevelCase} \cup
    { LevelCase(b, c, l, r) :
        b \in LevelBases, c \in {"lower", "upper", "title"}, l \in 0..2, r \in 0..1 }

PbTopics == {None, <<>>, <<"t">>, <<" ">>}
PbCodes == {NoCode, 0, 1, 3}
PbQuestions == { <<"q">>, <<" ", "Q", "?", " ">>, <<"Hints", "Diagnosis", "x">> }

\* ------------------------------------------------------ one attempt's code
PostRaises(o) ==
    CASE o.kind = "timeout" -> "Timeout"
      [] o.kind = "connfail" -> "ConnectionError"
      [] OTHER -> "none"

JsonRaises(o) == IF o.shape = "notjson" THEN "JSONDecodeError" ELSE "none"

ExtractRaises(o) ==
    CASE o.shape = "nonobject" -> "AttributeError"
      [] o.shape = "nocandidates" -> "IndexError"
      [] o.shape = "badparttext" -> "TypeError"
      [] OTHER -> "none"

ExtractText(o) == IF o.shape = "text" THEN o.text ELSE <<>>

\* Mutant: Response.json() raising a plain ValueError, which no except clause of
\* the attempt names.
IsRequestException_NoJson(exc) == exc \in {"Timeout", "ConnectionError"}

\* requests.exceptions: Timeout, ConnectionError and JSONDecodeError (raised by
\* Response.json()) all derive from RequestException.
IsRequestException(exc) == exc \in {"Timeout", "ConnectionError", "JSONDecodeError"}

\* Mutant: every error status is retried.
ShouldRetry_Always(status) == TRUE

ShouldRetry(status) == status \in RetryStatuses

\* Mutant: the immediate first attempt is missing from the schedule.
Schedule_NoImmediate == RETRY_DELAYS_S

\* A variant with one more retry than RETRY_DELAYS_S schedules.
Schedule_ExtraRetry == <<0>> \o RETRY_DELAYS_S \o <<32>>

\* A variant that backs off in the opposite order.
Schedule_Reversed == <<0, 16, 8, 4, 2, 1>>

Schedule == <<0>> \o RETRY_DELAYS_S

AttemptEnd(next, text, err, exc) == [next |-> next, text |-> text, err |-> err, exc |-> exc]

\* The except clauses of the attempt's outer try, in order.
OuterHandler(exc) ==
    IF exc = "Timeout" THEN AttemptEnd("continue", None, TimeoutErr, "none")
    ELSE IF IsRequestException(exc)
         THEN AttemptEnd("continue", None, RequestFailedErr(exc), "none")
         ELSE AttemptEnd("raise", None, NoErr, exc)

\* Mutant: the `if not text` check is missing, an empty text is returned.
Envelope_NoEmptyCheck(o) ==
    IF ExtractRaises(o) # "none"
    THEN AttemptEnd("continue", None, ParseErr(ExtractRaises(o)), "none")
    ELSE AttemptEnd("return", ExtractText(o), NoErr, "none")

\* Mutant: the `return text, None` is missing, the loop goes on after a success.
Envelope_NoReturn(o) ==
    IF ExtractRaises(o) # "none"
    THEN AttemptEnd("continue", None, ParseErr(ExtractRaises(o)), "none")
    ELSE AttemptEnd("continue", None, EmptyErr, "none")

\* A variant in which an empty text goes on to the next attempt with nothing
\* recorded.
Envelope_EmptyUnrecorded(o) ==
    IF ExtractRaises(o) # "none"
    THEN AttemptEnd("continue", None, ParseErr(ExtractRaises(o)), "none")
    ELSE IF ExtractText(o) = <<>>
         THEN AttemptEnd("continue", None, NoErr, "none")
         ELSE AttemptEnd("return", ExtractText(o), NoErr, "none")

\* The handling of a 200 once resp.json() has succeeded (the inner try).
Envelope(o) ==
    IF ExtractRaises(o) # "none"
    THEN AttemptEnd("continue", None, ParseErr(ExtractRaises(o)), "none")
    ELSE IF ExtractText(o) = <<>>
         THEN AttemptEnd("continue", None, EmptyErr, "none")
         ELSE AttemptEnd("return", ExtractText(o), NoErr, "none")

\* The handling of a status other than 200.
HttpFailure(o) ==
    LET body == IF JsonRaises(o) # "none" THEN "text" ELSE "json"
    IN AttemptEnd(IF ShouldRetry(o.status) THEN "continue" ELSE "break",
                  None, HttpErr(o.status, body), "none")

\* The body of the retry loop for one provider outcome.
AttemptResult(o) ==
    IF PostRaises(o) # "none" THEN OuterHandler(PostRaises(o))
    ELSE IF o.status = 200
         THEN IF JsonRaises(o) # "none" THEN OuterHandler(JsonRaises(o)) ELSE Envelope(o)
         ELSE HttpFailure(o)

\* What the call hands back: a return value (text, err) or an escaping exception.
GenReturn(text, err) == [kind |-> "return", text |-> text, err |-> err, exc |-> "none"]
GenRaise(exc) == [kind |-> "raise", text |-> None, err |-> NoErr, exc |-> exc]
NoGen == [kind |-> "none", text |-> None, err |-> NoErr, exc |-> "none"]

\* return None, last_err or {"message": "Unknown Gemini failure."}
FinalResult(err) == GenReturn(None, IF err.isNone THEN UnknownErr ELSE err)

\* ------------------------------------------------------------ the handler
\* The X-Request-Id header: absent, empty, or a caller's id.
NoHeader == "<absent>"
Headers == {NoHeader, "", "caller-7"}
\* Values of str(uuid.uuid4()).
FreshIds == {"uuid4-a", "uuid4-b"}

\* Mutant: the caller's header is ignored.
ChooseRequestId_Fresh(h, fresh) == fresh

\* request.headers.get("X-Request-Id") or str(uuid.uuid4())
ChooseRequestId(h, fresh) == IF h = NoHeader \/ h = "" THEN fresh ELSE h

\* The code field: absent, or the string 'x' * n held as n.
CodeLens == {NoCode, MaxCodeLen, MaxCodeLen + 1, 100000}

\* What request.get_json(silent=True) gives:
\*   invalid    None (the body does not parse)
\*   falsy      a JSON value that is falsy: null, [], {}, 0, "", false
\*   nonobject  a truthy JSON value that is no object: [1], "abc", 7, true
\*   object     an object with the four optional fields
Body(kind, topic, code, question, level) ==
    [kind |-> kind, topic |-> topic, code |-> code, question |-> question, level |-> level]

NoBody == Body("none", None, NoCode, None, None)

\* (topic, level) pairs a client sends.
TopicLevels ==
    { <<None, None>>,
      <<<<"t">>, <<"n", "a">>>>,
      <<<<"t">>, <<" ", "A", "D", "V", "A", "N", "C", "E", "D", " ">>>> }

Bodies ==
    {Body(k, None, NoCode, None, None) : k \in {"invalid", "falsy", "nonobject"}}
    \cup {Body("object", tl[1], c, q, tl[2]) :
            tl \in TopicLevels,
            c \in CodeLens,
            q \in {None, <<>>, <<" ">>, <<"q">>, <<" ", "q", " ">>}}

\* jsonify(payload), status.  Absent keys: error "", details NoErr, answer None.
Response(status, error, request_id, details, answer) ==
    [status |-> status, error |-> error, request_id |-> request_id,
     details |-> details, answer |-> answer]

NoResponse == Response(0, "", "", NoErr, None)

_json_error(status, message, request_id, details) ==
    Response(status, message, request_id, IF details.isNone THEN NoErr ELSE details, None)

\* `if err or not raw_text`
IsFailure(raw_text, err) == ~err.isNone \/ raw_text = None \/ raw_text = <<>>

\* Mutant: the raw text is answered.
Answer_Raw(raw_text) == raw_text

\* answer = _sanitize_tutor_output(raw_text)
Answer(raw_text) == sanitize_tutor_output(raw_text)

\* The fields ask_ai reads from the body: str(body.get(k) or default).strip()
FieldTopic(b) == strip(OrElse(b.topic, <<>>))
FieldCodeLen(b) == IF b.code = NoCode THEN 0 ELSE b.code
FieldQuestion(b) == strip(OrElse(b.question, <<>>))
FieldLevel(b) == strip(OrElse(b.level, Beginner))

\* body.get(...) on `get_json(silent=True) or {}`: a truthy non-object has no .get
BodyRaises(b) == IF b.kind = "nonobject" THEN "AttributeError" ELSE "none"

\* A variant whose 500 carries the exception as details.
Validate_LeakException(is_json, b, request_id) ==
    IF ~is_json
    THEN _json_error(400, "Content-Type must be application/json.", request_id, NoErr)
    ELSE IF BodyRaises(b) # "none"
    THEN _json_error(500, "Internal server error.", request_id,
                     RequestFailedErr(BodyRaises(b)))
    ELSE IF FieldQuestion(b) = <<>>
    THEN _json_error(400, "Field 'question' is required.", request_id, NoErr)
    ELSE IF FieldCodeLen(b) > MaxCodeLen
    THEN _json_error(413, "Field 'code' is too large.", request_id, NoErr)
    ELSE NoResponse

\* The response of the checks that precede the provider call, NoResponse when
\* the request passes them.
Validate(is_json, b, request_id) ==
    IF ~is_json
    THEN _json_error(400, "Content-Type must be application/json.", request_id, NoErr)
    ELSE IF BodyRaises(b) # "none"
    THEN _json_error(500, "Internal server error.", request_id, NoErr)
    ELSE IF FieldQuestion(b) = <<>>
    THEN _json_error(400, "Field 'question' is required.", request_id, NoErr)
    ELSE IF FieldCodeLen(b) > MaxCodeLen
    THEN _json_error(413, "Field 'code' is too large.", request_id, NoErr)
    ELSE NoResponse

\* ------------------------------------------------------------------ state
VARIABLES
    live,              \* the requests this run serves
    api_key,           \* GEMINI_API_KEY ("" when not configured)
    client,            \* the provider client ask_ai calls
    http_session,      \* gemini_ai._http_session: 0 is None, k the k-th Session created
    sessions_created,  \* how many Session objects were constructed
    pc,                \* where each request is
    header,            \* its X-Request-Id header
    is_json,           \* request.is_json
    body,              \* its parsed body
    request_id,        \* the id ask_ai chose
    prompt,            \* the prompt built for it
    session,           \* the session its provider call uses (0: none)
    attempt,           \* the 1-based index of the current attempt
    last_err,          \* last_err of its provider call
    calls,             \* provider calls made for it
    sleeps,            \* the backoff sleeps made for it, in order
    last_outcome,      \* what its latest provider call ended in
    gen,               \* what the provider client handed back
    sanitizer_runs,    \* how often the sanitizer ran for it
    resp,              \* the responses sent for it, in order
    san,               \* a direct call of sanitize_tutor_output: its text and result
    pb                 \* a direct call of build_tutor_prompt: its arguments and result

vars ==
    <<live, api_key, client, http_session, sessions_created, pc, header, is_json, body,
      request_id, prompt, session, attempt, last_err, calls, sleeps, last_outcome, gen,
      sanitizer_runs, resp, san, pb>>

direct == <<san, pb>>
config == <<live, api_key, client>>
inputs == <<header, is_json, body, request_id, prompt>>
loop == <<attempt, last_err, calls, sleeps, last_outcome>>
pool == <<http_session, sessions_created, session>>

NoPrompt == build_tutor_prompt(None, 0, <<>>, None)

\* No direct call of the sanitizer or of the prompt builder is under way.
NoSan == [state |-> "none", case |-> NoSanCase, text |-> None, out |-> None, out2 |-> None]
NoPb ==
    [state |-> "none", topic |-> None, code |-> NoCode, question |-> <<>>,
     lc |-> NoLevelCase, level |-> None, out |-> NoPrompt]

InitRequests ==
    /\ pc = [r \in Reqs |-> "idle"]
    /\ header = [r \in Reqs |-> NoHeader]
    /\ is_json = [r \in Reqs |-> FALSE]
    /\ body = [r \in Reqs |-> NoBody]
    /\ request_id = [r \in Reqs |-> ""]
    /\ prompt = [r \in Reqs |-> NoPrompt]
    /\ session = [r \in Reqs |-> 0]
    /\ attempt = [r \in Reqs |-> 0]
    /\ last_err = [r \in Reqs |-> NoErr]
    /\ calls = [r \in Reqs |-> 0]
    /\ sleeps = [r \in Reqs |-> <<>>]
    /\ last_outcome = [r \in Reqs |-> NoOutcome]
    /\ gen = [r \in Reqs |-> NoGen]
    /\ sanitizer_runs = [r \in Reqs |-> 0]
    /\ resp = [r \in Reqs |-> <<>>]

\* One request at a time, either client, the API key configured or not.
Init ==
    /\ live = {1}
    /\ api_key \in {"", "KEY"}
    /\ client \in {"generate_response", "_gemini_generate"}
    /\ http_session = 0
    /\ sessions_created = 0
    /\ InitRequests
    /\ san = NoSan
    /\ pb = NoPb

\* --------------------------------------------------------------- actions
\* ask_ai up to the provider call: request id, validation, prompt.
AskAiBegin(r) ==
    /\ r \in live
    /\ pc[r] = "idle"
    /\ \E h \in Headers, fresh \in FreshIds, j \in BOOLEAN, b \in Bodies :
         LET rid == ChooseRequestId(h, fresh)
             v == Validate(j, b, rid)
         IN /\ header' = [header EXCEPT ![r] = h]
            /\ is_json' = [is_json EXCEPT ![r] = j]
            /\ body' = [body EXCEPT ![r] = b]
            /\ request_id' = [request_id EXCEPT ![r] = rid]
            /\ IF v # NoResponse
               THEN /\ resp' = [resp EXCEPT ![r] = Append(@, v)]
                    /\ pc' = [pc EXCEPT ![r] = "done"]
                    /\ UNCHANGED prompt
               ELSE /\ prompt' = [prompt EXCEPT ![r] =
                          build_tutor_prompt(FieldTopic(b), FieldCodeLen(b),
                                             FieldQuestion(b), FieldLevel(b))]
                    /\ pc' = [pc EXCEPT ![r] = "call"]
                    /\ UNCHANGED resp
    /\ UNCHANGED <<direct, config, pool, loop, gen, sanitizer_runs>>

\* Mutant: the credential check is missing.
KeyMissing_Never(key) == FALSE

\* `if not GEMINI_API_KEY`
KeyMissing(key) == key = ""

\* The entry of the provider client: the credential check, last_err = None.
GenEnter(r) ==
    /\ pc[r] = "call"
    /\ IF KeyMissing(api_key)
       THEN /\ gen' = [gen EXCEPT ![r] = GenReturn(None, MissingKeyErr)]
            /\ pc' = [pc EXCEPT ![r] = "ret"]
            /\ UNCHANGED last_err
       ELSE /\ last_err' = [last_err EXCEPT ![r] = NoErr]
            /\ pc' = [pc EXCEPT ![r] =
                        IF client = "generate_response" THEN "session" ELSE "loop"]
            /\ UNCHANGED gen
    /\ UNCHANGED <<direct, config, pool, inputs, attempt, calls, sleeps, last_outcome,
                   sanitizer_runs, resp>>

\* _get_http_session: `if _http_session is None`
SessionCheck(r) ==
    /\ pc[r] = "session"
    /\ IF http_session = 0
       THEN /\ pc' = [pc EXCEPT ![r] = "session_new"]
            /\ UNCHANGED session
       ELSE /\ session' = [session EXCEPT ![r] = http_session]
            /\ pc' = [pc EXCEPT ![r] = "loop"]
    /\ UNCHANGED <<direct, config, http_session, sessions_created, inputs, loop, gen,
                   sanitizer_runs, resp>>

\* _get_http_session: `_http_session = requests.Session()` and the return.
SessionCreate(r) ==
    /\ pc[r] = "session_new"
    /\ sessions_created' = sessions_created + 1
    /\ http_session' = sessions_created + 1
    /\ session' = [session EXCEPT ![r] = sessions_created + 1]
    /\ pc' = [pc EXCEPT ![r] = "loop"]
    /\ UNCHANGED <<direct, config, inputs, loop, gen, sanitizer_runs, resp>>

\* The head of `for attempt, delay_s in enumerate([0] + RETRY_DELAYS_S, start=1)`.
LoopHead(r) ==
    /\ pc[r] = "loop"
    /\ IF attempt[r] = Len(Schedule)
       THEN /\ gen' = [gen EXCEPT ![r] = FinalResult(last_err[r])]
            /\ pc' = [pc EXCEPT ![r] = "ret"]
            /\ UNCHANGED attempt
       ELSE /\ attempt' = [attempt EXCEPT ![r] = @ + 1]
            /\ pc' = [pc EXCEPT ![r] =
                        IF Schedule[attempt[r] + 1] # 0 THEN "sleep" ELSE "post"]
            /\ UNCHANGED gen
    /\ UNCHANGED <<direct, config, pool, inputs, last_err, calls, sleeps, last_outcome,
                   sanitizer_runs, resp>>

\* time.sleep(delay_s)
Sleep(r) ==
    /\ pc[r] = "sleep"
    /\ sleeps' = [sleeps EXCEPT ![r] = Append(@, Schedule[attempt[r]])]
    /\ pc' = [pc EXCEPT ![r] = "post"]
    /\ UNCHANGED <<direct, config, pool, inputs, attempt, last_err, calls, last_outcome, gen,
                   sanitizer_runs, resp>>

\* A variant in which a failing attempt keeps an earlier recorded failure.
Post_KeepFirstErr(r) ==
    /\ pc[r] = "post"
    /\ \E o \in Outcomes :
         LET a == AttemptResult(o)
             kept == IF last_err[r].isNone THEN a.err ELSE last_err[r]
         IN /\ calls' = [calls EXCEPT ![r] = @ + 1]
            /\ last_outcome' = [last_outcome EXCEPT ![r] = o]
            /\ last_err' = [last_err EXCEPT ![r] =
                               IF a.next \in {"continue", "break"} THEN kept ELSE @]
            /\ gen' = [gen EXCEPT ![r] =
                          CASE a.next = "return" -> GenReturn(a.text, NoErr)
                            [] a.next = "break" -> FinalResult(kept)
                            [] a.next = "raise" -> GenRaise(a.exc)
                            [] OTHER -> @]
            /\ pc' = [pc EXCEPT ![r] = IF a.next = "continue" THEN "loop" ELSE "ret"]
    /\ UNCHANGED <<direct, config, pool, inputs, attempt, sleeps, sanitizer_runs, resp>>

\* A variant in which last_err is one variable of the module, shared by the
\* calls in flight.
PostFrom_SharedErr(r, outcomes) ==
    /\ pc[r] = "post"
    /\ \E o \in outcomes :
         LET a == AttemptResult(o)
         IN /\ calls' = [calls EXCEPT ![r] = @ + 1]
            /\ last_outcome' = [last_outcome EXCEPT ![r] = o]
            /\ last_err' = IF a.next \in {"continue", "break"}
                           THEN [q \in Reqs |-> a.err] ELSE last_err
            /\ gen' = [gen EXCEPT ![r] =
                          CASE a.next = "return" -> GenReturn(a.text, NoErr)
                            [] a.next = "break" -> FinalResult(a.err)
                            [] a.next = "raise" -> GenRaise(a.exc)
                            [] OTHER -> @]
            /\ pc' = [pc EXCEPT ![r] = IF a.next = "continue" THEN "loop" ELSE "ret"]
    /\ UNCHANGED <<direct, config, pool, inputs, attempt, sleeps, sanitizer_runs, resp>>

\* One provider call that ends in one of the given outcomes, and the handling
\* of what it ends in.
PostFrom(r, outcomes) ==
    /\ pc[r] = "post"
    /\ \E o \in outcomes :
         LET a == AttemptResult(o)
         IN /\ calls' = [calls EXCEPT ![r] = @ + 1]
            /\ last_outcome' = [last_outcome EXCEPT ![r] = o]
            /\ last_err' = [last_err EXCEPT ![r] =
                               IF a.next \in {"continue", "break"} THEN a.err ELSE @]
            /\ gen' = [gen EXCEPT ![r] =
                          CASE a.next = "return" -> GenReturn(a.text, NoErr)
                            [] a.next = "break" -> FinalResult(a.err)
                            [] a.next = "raise" -> GenRaise(a.exc)
                            [] OTHER -> @]
            /\ pc' = [pc EXCEPT ![r] = IF a.next = "continue" THEN "loop" ELSE "ret"]
    /\ UNCHANGED <<direct, config, pool, inputs, attempt, sleeps, sanitizer_runs, resp>>

\* One provider call, whatever it ends in.
Post(r) == PostFrom(r, Outcomes)

\* ask_ai after the provider call: 502, or the sanitizer and 200; 500 when an
\* exception escaped the provider client.
AskAiFinish(r) ==
    /\ pc[r] = "ret"
    /\ IF gen[r].kind = "raise"
       THEN /\ resp' = [resp EXCEPT ![r] = Append(@,
                          _json_error(500, "Internal server error.", request_id[r], NoErr))]
            /\ UNCHANGED sanitizer_runs
       ELSE IF IsFailure(gen[r].text, gen[r].err)
       THEN /\ resp' = [resp EXCEPT ![r] = Append(@,
                          _json_error(502, "AI provider error. Please try again.",
                                      request_id[r], gen[r].err))]
            /\ UNCHANGED sanitizer_runs
       ELSE /\ resp' = [resp EXCEPT ![r] = Append(@,
                          Response(200, "", request_id[r], NoErr, Answer(gen[r].text)))]
            /\ sanitizer_runs' = [sanitizer_runs EXCEPT ![r] = @ + 1]
    /\ pc' = [pc EXCEPT ![r] = "done"]
    /\ UNCHANGED <<direct, config, pool, inputs, loop, gen>>

Next ==
    \E r \in Reqs :
        \/ AskAiBegin(r)
        \/ GenEnter(r)
        \/ SessionCheck(r)
        \/ SessionCreate(r)
        \/ LoopHead(r)
        \/ Sleep(r)
        \/ Post(r)
        \/ AskAiFinish(r)

Spec == Init /\ [][Next]_vars

\* The steps of the provider client for one request: straight-line code of
\* its thread. A sleep returns and a provider call returns or raises within
\* REQUEST_TIMEOUT_S, so a client that can take a step eventually takes one.
ClientStep(r) ==
    \/ GenEnter(r)
    \/ SessionCheck(r)
    \/ SessionCreate(r)
    \/ LoopHead(r)
    \/ Sleep(r)
    \/ Post(r)

RequestStep(r) == ClientStep(r) \/ AskAiFinish(r)

\* ------------------------------------------- one provider call on its own
\* Request 1 has passed the checks of ask_ai and is about to call the client.
CallBody == Body("object", <<"t">>, 0, <<"q">>, None)

InitCall ==
    /\ live = {1}
    /\ api_key \in {"", "KEY"}
    /\ client \in {"generate_response", "_gemini_generate"}
    /\ http_session = 0
    /\ sessions_created = 0
    /\ pc = [r \in Reqs |-> IF r = 1 THEN "call" ELSE "idle"]
    /\ header = [r \in Reqs |-> NoHeader]
    /\ is_json = [r \in Reqs |-> r = 1]
    /\ body = [r \in Reqs |-> IF r = 1 THEN CallBody ELSE NoBody]
    /\ request_id = [r \in Reqs |-> IF r = 1 THEN ChooseRequestId(NoHeader, "uuid4-a") ELSE ""]
    /\ prompt = [r \in Reqs |->
                   IF r = 1
                   THEN build_tutor_prompt(FieldTopic(CallBody), FieldCodeLen(CallBody),
                                           FieldQuestion(CallBody), FieldLevel(CallBody))
                   ELSE NoPrompt]
    /\ session = [r \in Reqs |-> 0]
    /\ attempt = [r \in Reqs |-> 0]
    /\ last_err = [r \in Reqs |-> NoErr]
    /\ calls = [r \in Reqs |-> 0]
    /\ sleeps = [r \in Reqs |-> <<>>]
    /\ last_outcome = [r \in Reqs |-> NoOutcome]
    /\ gen = [r \in Reqs |-> NoGen]
    /\ sanitizer_runs = [r \in Reqs |-> 0]
    /\ resp = [r \in Reqs |-> <<>>]
    /\ san = NoSan
    /\ pb = NoPb

NextCall == \E r \in Reqs : RequestStep(r)

\* ------------------------------------------------- two requests in flight
\* Requests 1 and 2, served by two threads of the server, have both passed the
\* checks of ask_ai and are about to call the client; their steps interleave.
InFlight == {1, 2}
ConcHeader(r) == IF r = 1 THEN "caller-7" ELSE NoHeader
ConcBody(r) ==
    IF r = 1 THEN Body("object", <<"t">>, 0, <<"q">>, None)
    ELSE Body("object", None, 3, <<" ", "Q", "?">>, <<"A", "D", "V", "A", "N", "C", "E", "D">>)

InitConc ==
    /\ live = InFlight
    /\ api_key \in {"", "KEY"}
    /\ client \in {"generate_response", "_gemini_generate"}
    /\ http_session = 0
    /\ sessions_created = 0
    /\ pc = [r \in Reqs |-> IF r \in InFlight THEN "call" ELSE "idle"]
    /\ header = [r \in Reqs |-> IF r \in InFlight THEN ConcHeader(r) ELSE NoHeader]
    /\ is_json = [r \in Reqs |-> r \in InFlight]
    /\ body = [r \in Reqs |-> IF r \in InFlight THEN ConcBody(r) ELSE NoBody]
    /\ request_id = [r \in Reqs |->
                       IF r \in InFlight THEN ChooseRequestId(ConcHeader(r), "uuid4-a") ELSE ""]
    /\ prompt = [r \in Reqs |->
                   IF r \in InFlight
                   THEN build_tutor_prompt(FieldTopic(ConcBody(r)), FieldCodeLen(ConcBody(r)),
                                           FieldQuestion(ConcBody(r)), FieldLevel(ConcBody(r)))
                   ELSE NoPrompt]
    /\ session = [r \in Reqs |-> 0]
    /\ attempt = [r \in Reqs |-> 0]
    /\ last_err = [r \in Reqs |-> NoErr]
    /\ calls = [r \in Reqs |-> 0]
    /\ sleeps = [r \in Reqs |-> <<>>]
    /\ last_outcome = [r \in Reqs |-> NoOutcome]
    /\ gen = [r \in Reqs |-> NoGen]
    /\ sanitizer_runs = [r \in Reqs |-> 0]
    /\ resp = [r \in Reqs |-> <<>>]
    /\ san = NoSan
    /\ pb = NoPb

\* What the provider calls of the two requests end in: a timeout, a refusal, an
\* overload, an empty answer, an answer with a long code block.
ConcOutcomes ==
    { Outcome("timeout", 0, "-", <<>>),
      Outcome("http", 401, "json", <<>>),
      Outcome("http", 503, "notjson", <<>>),
      Outcome("http", 200, "noparts", <<>>),
      Outcome("http", 200, "text",
              <<"w", "N">> \o CodeBlock(MAX_CODE_BLOCK_LINES + 1) \o <<"N", "w">>) }

NextConc ==
    \E r \in Reqs :
        \/ GenEnter(r)
        \/ SessionCheck(r)
        \/ SessionCreate(r)
        \/ LoopHead(r)
        \/ Sleep(r)
        \/ PostFrom(r, ConcOutcomes)
        \/ AskAiFinish(r)

SpecConc == InitConc /\ [][NextConc]_vars

SpecCall == InitCall /\ [][NextCall]_vars

FairCall == SpecCall /\ \A r \in Reqs : WF_vars(ClientStep(r))

\* ------------------------------------------- the sanitizer called directly
NoRequests ==
    /\ live = {}
    /\ api_key = "KEY"
    /\ client = "generate_response"
    /\ http_session = 0
    /\ sessions_created = 0
    /\ InitRequests

InitSanitize ==
    /\ NoRequests
    /\ \E c \in SanCases :
         san = [state |-> "args", case |-> c, text |-> SanText(c), out |-> None,
                out2 |-> None]
    /\ pb = NoPb

SanitizeCall ==
    /\ san.state = "args"
    /\ san' = [san EXCEPT !.state = "done", !.out = sanitize_tutor_output(san.text)]
    /\ UNCHANGED <<pb, config, pool, inputs, loop, gen, sanitizer_runs, resp, pc>>

\* The sanitizer called on its own result.
SanitizeAgain ==
    /\ san.state = "done"
    /\ san' = [san EXCEPT !.state = "again", !.out2 = sanitize_tutor_output(san.out)]
    /\ UNCHANGED <<pb, config, pool, inputs, loop, gen, sanitizer_runs, resp, pc>>

NextSanitize == SanitizeCall \/ SanitizeAgain

SpecSanitize == InitSanitize /\ [][NextSanitize]_vars

\* -------------------------------------- the prompt builder called directly
InitPrompt ==
    /\ NoRequests
    /\ san = NoSan
    /\ \E t \in PbTopics, c \in PbCodes, q \in PbQuestions, lc \in LevelCases :
         pb = [state |-> "args", topic |-> t, code |-> c, question |-> q,
               lc |-> lc, level |-> LevelText(lc), out |-> NoPrompt]

BuildPromptCall ==
    /\ pb.state = "args"
    /\ pb' = [pb EXCEPT !.state = "done",
                        !.out = build_tutor_prompt(pb.topic, pb.code, pb.question, pb.level)]
    /\ UNCHANGED <<san, config, pool, inputs, loop, gen, sanitizer_runs, resp, pc>>

NextPrompt == BuildPromptCall

SpecPrompt == InitPrompt /\ [][NextPrompt]_vars

\* ================================================================ claims
Ended(r) == pc[r] \in {"ret", "done"}
Returned(r) == gen[r].kind = "return"
IsSuccessText(g) == g.text # None /\ g.text # <<>> /\ g.err.isNone
IsFailureResult(g) == g.text = None /\ ~g.err.isNone /\ g.err.message # ""
TheResponse(r) == resp[r][1]

\* C1: whatever the provider outcomes were, a provider call that returns hands
\* back either (non-empty text, no error) or (no text, a non-empty error
\* detail), never both and never neither.
C1_ResultShape ==
    \A r \in Reqs :
        Returned(r) =>
            /\ IsSuccessText(gen[r]) \/ IsFailureResult(gen[r])
            /\ ~(IsSuccessText(gen[r]) /\ IsFailureResult(gen[r]))

\* A success handed back after earlier attempts had recorded a failure.
C1_Witness ==
    \E r \in Reqs :
        Returned(r) /\ IsSuccessText(gen[r]) /\ calls[r] > 1 /\ ~last_err[r].isNone

\* C2: an HTTP status that is neither 200 nor 429/500/502/503/504 ends the retry
\* loop at that attempt: the call returns that attempt's failure, ask_ai answers
\* 502, and no provider call or sleep follows; on the first attempt that is
\* exactly one provider call.
C2_IsFatal(o) ==
    o.kind = "http" /\ o.status # 200 /\ o.status \notin {429, 500, 502, 503, 504}

C2_Stopped ==
    \A r \in Reqs :
        C2_IsFatal(last_outcome[r]) =>
            /\ Ended(r)
            /\ Returned(r) /\ IsFailureResult(gen[r])
            /\ gen[r].err.message = "Gemini HTTP error"
            /\ gen[r].err.status = last_outcome[r].status
            /\ attempt[r] = 1 => calls[r] = 1 /\ sleeps[r] = <<>>
            /\ pc[r] = "done" => Len(resp[r]) = 1 /\ TheResponse(r).status = 502

C2_NoFurther ==
    \A r \in Reqs :
        C2_IsFatal(last_outcome[r]) => calls'[r] = calls[r] /\ sleeps'[r] = sleeps[r]

C2_NonRetryableStops == []C2_Stopped /\ [][C2_NoFurther]_vars

\* A 401 on the first attempt, answered with 502 after one provider call.
C2_Witness ==
    \E r \in Reqs :
        /\ pc[r] = "done" /\ last_outcome[r].status = 401
        /\ calls[r] = 1 /\ TheResponse(r).status = 502

\* C3: a provider call whose attempts all end in a transient outcome makes
\* exactly len(RETRY_DELAYS_S) + 1 = 6 provider calls, returns a failure and is
\* answered with 502; a transient outcome never ends the loop while retries remain.
C3_IsTransient(o) ==
    \/ o.kind \in {"timeout", "connfail"}
    \/ o.kind = "http" /\ o.status \in {429, 500, 502, 503, 504}
    \/ o.kind = "http" /\ o.status = 200 /\ o.shape # "text"

C3_Exhausted ==
    \A r \in Reqs :
        Ended(r) /\ C3_IsTransient(last_outcome[r]) =>
            /\ calls[r] = Len(RETRY_DELAYS_S) + 1
            /\ calls[r] = 6
            /\ Returned(r) /\ IsFailureResult(gen[r])
            /\ pc[r] = "done" => Len(resp[r]) = 1 /\ TheResponse(r).status = 502

C3_GoesOn ==
    \A r \in Reqs :
        calls'[r] = calls[r] + 1 /\ C3_IsTransient(last_outcome'[r]) /\ calls'[r] < 6
            => pc'[r] = "loop" /\ gen'[r] = gen[r]

C3_TransientExhausts == []C3_Exhausted /\ [][C3_GoesOn]_vars

\* Six provider calls that all ended in HTTP 500, answered with 502.
C3_Witness ==
    \E r \in Reqs :
        /\ pc[r] = "done" /\ last_outcome[r].status = 500
        /\ calls[r] = 6 /\ TheResponse(r).status = 502

\* C4: the first attempt that gets a 200 with non-empty text ends the call at
\* once with exactly that text and no error, whatever failures earlier attempts
\* recorded, and no provider call or sleep follows.
C4_IsSuccess(o) == o.kind = "http" /\ o.status = 200 /\ o.shape = "text" /\ o.text # <<>>

C4_Returned ==
    \A r \in Reqs :
        C4_IsSuccess(last_outcome[r]) =>
            /\ Ended(r)
            /\ Returned(r) /\ gen[r].text = last_outcome[r].text /\ gen[r].err.isNone

C4_NoFurther ==
    \A r \in Reqs :
        C4_IsSuccess(last_outcome[r]) => calls'[r] = calls[r] /\ sleeps'[r] = sleeps[r]

C4_SuccessShortCircuits == []C4_Returned /\ [][C4_NoFurther]_vars

\* A success on the third attempt, after two recorded failures and two sleeps.
C4_Witness ==
    \E r \in Reqs :
        /\ C4_IsSuccess(last_outcome[r]) /\ calls[r] = 3 /\ sleeps[r] = <<1, 2>>
        /\ ~last_err[r].isNone /\ Returned(r)

\* C5: with no API key configured the provider client returns the
\* missing-credential failure without any provider call or sleep, and ask_ai
\* answers 502.
C5_MissingKeyFailsFast ==
    \A r \in Reqs :
        api_key = "" =>
            /\ calls[r] = 0 /\ sleeps[r] = <<>> /\ session[r] = 0
            /\ pc[r] \in {"idle", "call", "ret", "done"}
            /\ pc[r] = "ret" =>
                   /\ Returned(r) /\ gen[r].text = None
                   /\ gen[r].err.message = "Missing GEMINI_API_KEY in environment."
            /\ pc[r] = "done" /\ prompt[r] # NoPrompt =>
                   /\ Returned(r) /\ gen[r].text = None
                   /\ gen[r].err.message = "Missing GEMINI_API_KEY in environment."
                   /\ Len(resp[r]) = 1 /\ TheResponse(r).status = 502

\* A validated request answered 502 while no key is configured.
C5_Witness ==
    \E r \in Reqs :
        /\ api_key = "" /\ pc[r] = "done" /\ prompt[r] # NoPrompt
        /\ TheResponse(r).status = 502

\* C6: no exception escapes the provider client: after any provider outcome the
\* call either goes on with the loop or hands back a result value.
C6_NeverRaises ==
    \A r \in Reqs :
        /\ gen[r].kind # "raise"
        /\ Ended(r) /\ prompt[r] # NoPrompt => Returned(r)

\* A call that ended after a 200 whose body was not JSON.
C6_Witness ==
    \E r \in Reqs :
        /\ Ended(r) /\ Returned(r)
        /\ last_outcome[r].status = 200 /\ last_outcome[r].shape = "notjson"
        /\ gen[r].err.exception = "JSONDecodeError"

\* C7: for any JSON body, an absent or empty (after trimming) question is
\* answered 400 with a message naming 'question'; otherwise a code longer than
\* 80,000 characters is answered 413 and one of exactly 80,000 is accepted;
\* neither rejection makes a provider call.
C7_QuestionMissing(b) == b.question = None \/ strip(b.question) = <<>>

C7_ValidationFirst ==
    \A r \in Reqs :
        pc[r] # "idle" /\ is_json[r] =>
            IF C7_QuestionMissing(body[r])
            THEN /\ pc[r] = "done" /\ calls[r] = 0 /\ prompt[r] = NoPrompt
                 /\ resp[r] = <<_json_error(400, "Field 'question' is required.",
                                            request_id[r], NoErr)>>
            ELSE IF body[r].code > 80000
            THEN /\ pc[r] = "done" /\ calls[r] = 0 /\ prompt[r] = NoPrompt
                 /\ resp[r] = <<_json_error(413, "Field 'code' is too large.",
                                            request_id[r], NoErr)>>
            ELSE /\ prompt[r] # NoPrompt
                 /\ pc[r] = "done" => TheResponse(r).status \notin {400, 413}

\* C8: for a validated request ask_ai answers 200 exactly when the provider
\* client returned a text, and the answer is then the sanitizer's output for
\* that text; it answers 502 'AI provider error' exactly when the client
\* returned a failure, and the sanitizer does not run on a failure.
C8_AnswerOrProviderError ==
    \A r \in Reqs :
        pc[r] = "done" /\ Returned(r) =>
            /\ Len(resp[r]) = 1
            /\ IsSuccessText(gen[r]) <=> TheResponse(r).status = 200
            /\ IsFailureResult(gen[r]) <=> TheResponse(r).status = 502
            /\ IsSuccessText(gen[r]) =>
                   /\ TheResponse(r).answer = sanitize_tutor_output(gen[r].text)
                   /\ TheResponse(r).error = ""
                   /\ sanitizer_runs[r] = 1
            /\ IsFailureResult(gen[r]) =>
                   /\ TheResponse(r).error = "AI provider error. Please try again."
                   /\ TheResponse(r).answer = None
                   /\ sanitizer_runs[r] = 0

\* A 200 whose answer differs from the provider's text: the sanitizer acted.
C8_Witness ==
    \E r \in Reqs :
        /\ pc[r] = "done" /\ TheResponse(r).status = 200
        /\ TheResponse(r).answer # gen[r].text
        /\ TheResponse(r).answer = <<"w", "N", "OMIT", "N", "w">>

\* C9 (as stated): every finished ask_ai has sent exactly one response with a
\* status in {200, 400, 413, 502, 500} carrying request_id, which equals the
\* X-Request-Id header when one is supplied and is a fresh id otherwise.
C9_OneResponse(r) ==
    /\ Len(resp[r]) <= 1
    /\ pc[r] = "done" <=> Len(resp[r]) = 1
    /\ pc[r] = "done" =>
           /\ TheResponse(r).status \in {200, 400, 413, 502, 500}
           /\ TheResponse(r).request_id # ""
           /\ TheResponse(r).request_id = request_id[r]

C9_AsStated ==
    \A r \in Reqs :
        /\ C9_OneResponse(r)
        /\ pc[r] = "done" =>
               IF header[r] # NoHeader
               THEN TheResponse(r).request_id = header[r]
               ELSE TheResponse(r).request_id \in FreshIds

\* C9 (amended): ... which equals the X-Request-Id header when a non-empty one
\* is supplied, and is a fresh id when the header is absent or empty.
C9_OneResponseWithId ==
    \A r \in Reqs :
        /\ C9_OneResponse(r)
        /\ pc[r] = "done" =>
               IF header[r] \notin {NoHeader, ""}
               THEN TheResponse(r).request_id = header[r]
               ELSE TheResponse(r).request_id \in FreshIds

\* The top-level handler's 500, carrying the caller's id.
C9_Witness ==
    \E r \in Reqs :
        /\ pc[r] = "done" /\ TheResponse(r).status = 500
        /\ header[r] = "caller-7" /\ TheResponse(r).request_id = "caller-7"

\* C10: no 400, 413, 502 or 500 response carries the provider's raw body or
\* payload or the text of an underlying exception.
C10_NoRawProviderData ==
    \A r \in Reqs :
        \A i \in 1..Len(resp[r]) :
            resp[r][i].status \in {400, 413, 502, 500} =>
                /\ resp[r][i].details.body = "absent"
                /\ resp[r][i].details.raw = "absent"
                /\ resp[r][i].details.exception = "absent"

\* ------------------------------------------------ claims on the sanitizer
SanDone == san.state = "done"
Occurs(sub, t) ==
    \E i \in 1..(Len(t) - Len(sub) + 1) : SubSeq(t, i, i + Len(sub) - 1) = sub
HasToken(t, c) == \E i \in 1..Len(t) : t[i] = c
Truncated(t) == HasToken(t, "TRUNC")
ShortBody(b) == b.on /\ b.n <= 8
LongBody(b) == b.on /\ b.n >= 9

\* What the claims expect of the code-block step, written from the layout of
\* the case: a block of at most 8 body lines as it was, a longer one as the
\* message.
ExpectBlock(b, whole) == IF LongBody(b) THEN OmitMsg \o <<"N">> ELSE whole
ExpectRedacted(c) ==
    ProseLines(c.pre) \o ExpectBlock(c.b1, Block1Text(c)) \o SuspLines(c.susp)
        \o ProseLines(c.mid) \o ExpectBlock(c.b2, Block2Text(c))

\* The lines of a truncated output before the blank line and the notice.
KeptLines(out) == splitlines(SubSeq(out, 1, Len(out) - 3))
IsPrefix(a, b) == Len(a) <= Len(b) /\ SubSeq(b, 1, Len(a)) = a

\* C11 as stated: a block of at most 8 body lines is byte-identical in the
\* output, a block of 9 or more is replaced by the message and none of its body
\* lines appear in the output.
C11_AsStated ==
    SanDone =>
        /\ ShortBody(san.case.b1) => Occurs(Block1Text(san.case), san.out)
        /\ ShortBody(san.case.b2) => Occurs(Block2Text(san.case), san.out)
        /\ LongBody(san.case.b1) => ~HasToken(san.out, "x") /\ HasToken(san.out, "OMIT")
        /\ LongBody(san.case.b2) => ~HasToken(san.out, "y")

\* C11: the code-block step leaves a block of at most 8 body lines byte-identical
\* and replaces a block of 9 or more by the message; an output that is not
\* truncated is exactly that text, a truncated output keeps a prefix of its
\* lines, and no body line of a replaced block is in the output either way.
C11_BlocksByLineCount ==
    SanDone =>
        /\ ~Truncated(san.out) => san.out = ExpectRedacted(san.case)
        /\ Truncated(san.out) =>
               IsPrefix(KeptLines(san.out), splitlines(ExpectRedacted(san.case)))
        /\ LongBody(san.case.b1) => ~HasToken(san.out, "x")
        /\ LongBody(san.case.b2) => ~HasToken(san.out, "y")

\* A block of exactly 8 lines kept and a block of 9 lines replaced in one output.
C11_Witness ==
    /\ SanDone
    /\ san.case.b1.on /\ san.case.b1.n = 8
    /\ san.case.b2.on /\ san.case.b2.n = 9
    /\ Occurs(Block1Text(san.case), san.out)
    /\ HasToken(san.out, "OMIT") /\ ~HasToken(san.out, "y")
    /\ ~Truncated(san.out)

\* The suspicious lines the claims expect in the redacted text: those in prose
\* and those in the body of a block of at most 8 lines.
RetainedSuspicious(b) == IF ShortBody(b) THEN b.s ELSE 0
ExpectSuspicious(c) == c.susp + RetainedSuspicious(c.b1) + RetainedSuspicious(c.b2)
Notice == <<"N", "N", "TRUNC">>

\* C12: with 12 or more suspicious lines in the redacted text the output is
\* its first 120 lines followed by the notice (a prefix of the redacted text of
\* at most 120 lines, nothing past it); with 11 or fewer the output carries no
\* notice and is the redacted text.
C12_TruncationAtThreshold ==
    SanDone =>
        LET red == ExpectRedacted(san.case)
            kept == SubSeq(san.out, 1, Len(san.out) - 3)
        IN IF ExpectSuspicious(san.case) >= 12
           THEN /\ Len(san.out) >= 3
                /\ SubSeq(san.out, Len(san.out) - 2, Len(san.out)) = Notice
                /\ ~Truncated(kept)
                /\ IsPrefix(kept, red)
                /\ Len(splitlines(kept)) = Min(120, Len(splitlines(red)))
                /\ Len(kept) < Len(red) => red[Len(kept) + 1] = "N"
           ELSE ~Truncated(san.out) /\ san.out = red

\* Exactly 12 suspicious lines in a redacted text of more than 120 lines.
C12_Witness ==
    /\ SanDone
    /\ ExpectSuspicious(san.case) = 12
    /\ Len(splitlines(ExpectRedacted(san.case))) > 120
    /\ Truncated(san.out)
    /\ Len(KeptLines(san.out)) = 120

\* Exactly 11 suspicious lines: the long text goes out whole.
C12_WitnessBelow ==
    /\ SanDone
    /\ ExpectSuspicious(san.case) = 11
    /\ Len(splitlines(san.out)) > 120
    /\ ~Truncated(san.out)

\* C20: the suspicious lines are counted on the redacted text: the output is
\* truncated exactly when the prose lines and the body lines of retained blocks
\* make 12 or more; the lines of a replaced block do not count, so a text whose
\* only suspicious lines are in replaced blocks is redacted and not truncated.
C20_CountsRedactedText ==
    SanDone =>
        /\ Truncated(san.out) <=> ExpectSuspicious(san.case) >= 12
        /\ (ExpectSuspicious(san.case) = 0 /\ CountSuspicious(splitlines(san.text)) > 0)
              => ~Truncated(san.out) /\ HasToken(san.out, "OMIT")

\* 8 suspicious lines in a retained block and 4 in prose trigger truncation.
C20_Witness ==
    /\ SanDone
    /\ ShortBody(san.case.b1) /\ san.case.b1.s = 8
    /\ san.case.susp = 4
    /\ ~ShortBody(san.case.b2)
    /\ Truncated(san.out)

\* 12 suspicious lines, all in a replaced block: redacted, not truncated.
C20_WitnessReplaced ==
    /\ SanDone
    /\ LongBody(san.case.b1) /\ san.case.b1.s = 12
    /\ ExpectSuspicious(san.case) = 0
    /\ HasToken(san.out, "OMIT") /\ ~Truncated(san.out)

\* -------------------------------------------- claims on the prompt builder
PbDone == pb.state = "done"

\* C13: the level written into the prompt is one of the three levels: the base
\* word of the given level, in lower case, when that word is one of the three
\* (whatever its casing and the blanks around it), and beginner for every other
\* level, the empty string and None included.
C13_LevelNormalised ==
    PbDone =>
        /\ pb.out.level \in Levels
        /\ pb.out.level = IF pb.lc.base \in Levels THEN pb.lc.base ELSE Beginner

\* An upper-case padded "INTERMEDIATE" written as intermediate.
C13_Witness ==
    /\ PbDone
    /\ pb.lc = LevelCase(Intermediate, "upper", 2, 1)
    /\ pb.level # Intermediate
    /\ pb.out.level = Intermediate

\* The empty string and None written as beginner.
C13_WitnessEmpty == PbDone /\ pb.level = <<>> /\ pb.out.level = Beginner
C13_WitnessNone == PbDone /\ pb.level = None /\ pb.out.level = Beginner

\* The text of a slot: what lies between two pieces of fixed text.
Between(t, from, to) ==
    LET a == IndexFrom(t, from, 1)
        b == LastIndexBefore(t, to, Len(t) + 1)
    IN SubSeq(t, a + 1, b - 1)

\* C14: the prompt holds the question verbatim and the code verbatim when it is
\* not empty; an empty topic is written as (unspecified); the five headings
\* follow the question in the order Diagnosis, Why it happens, Hints, Check
\* yourself, Next small step.
C14_PromptContents ==
    PbDone =>
        LET text == RenderPrompt(pb.out)
            qend == IndexFrom(text, "Student question:", 1) + Len(pb.question)
            h1 == IndexFrom(text, "Diagnosis", qend + 1)
            h2 == IndexFrom(text, "Why it happens", h1 + 1)
            h3 == IndexFrom(text, "Hints", h2 + 1)
            h4 == IndexFrom(text, "Check yourself", h3 + 1)
            h5 == IndexFrom(text, "Next small step", h4 + 1)
        IN /\ Between(text, "Student question:", "Required response format") = pb.question
           /\ pb.code > 0 =>
                 Between(text, "Student code:", "Student question:") = [k \in 1..pb.code |-> "x"]
           /\ pb.topic \in {None, <<>>} =>
                 Between(text, "- Topic: ", "- Level: ") = Unspecified
           /\ pb.topic \notin {None, <<>>} =>
                 Between(text, "- Topic: ", "- Level: ") = pb.topic
           /\ h1 > qend /\ h2 > h1 /\ h3 > h2 /\ h4 > h3 /\ h5 > h4

\* A padded question and a three-character code with no topic.
C14_Witness ==
    /\ PbDone
    /\ pb.question = <<" ", "Q", "?", " ">>
    /\ pb.code = 3
    /\ pb.topic = <<>>
    /\ Occurs(<<"x", "x", "x", "Student question:", " ", "Q", "?", " ">>, RenderPrompt(pb.out))

\* ------------------------------------------------ claims on the retry loop
RECURSIVE Sum(_)
Sum(q) == IF q = <<>> THEN 0 ELSE Head(q) + Sum(Tail(q))

C16_AtMostSix == \A r \in Reqs : calls[r] <= Len(RETRY_DELAYS_S) + 1 /\ calls[r] <= 6
C16_Terminates == \A r \in Reqs : (pc[r] = "call") ~> Ended(r)

\* C16: whatever the outcomes of the attempts, one provider call of the client
\* makes at most len(RETRY_DELAYS_S) + 1 = 6 provider calls and comes to an end.
C16_BoundedAttempts == []C16_AtMostSix /\ C16_Terminates

\* A call that ended after the immediate attempt and all five retries.
C16_Witness ==
    \E r \in Reqs : pc[r] = "ret" /\ calls[r] = 6 /\ attempt[r] = 6

\* C17: the sleeps of one call are a prefix of 1, 2, 4, 8, 16 in that order;
\* attempt k is made after exactly k - 1 sleeps (none before the first, the
\* last one RETRY_DELAYS_S[k-2]); a call that ended after n attempts slept n - 1
\* times, so nothing is slept after the last attempt, a success or a
\* non-retryable failure; the sleeps of a call sum to at most 31.
C17_BackoffOrder ==
    \A r \in Reqs :
        /\ IsPrefix(sleeps[r], <<1, 2, 4, 8, 16>>)
        /\ pc[r] = "post" =>
              /\ attempt[r] = calls[r] + 1
              /\ Len(sleeps[r]) = attempt[r] - 1
              /\ attempt[r] >= 2 => sleeps[r][Len(sleeps[r])] = RETRY_DELAYS_S[attempt[r] - 1]
        /\ (Ended(r) /\ calls[r] >= 1) => Len(sleeps[r]) = calls[r] - 1
        /\ (Ended(r) /\ calls[r] = 0) => sleeps[r] = <<>>
        /\ Sum(sleeps[r]) <= 31

\* A call whose fourth attempt succeeded, after sleeps of 1, 2 and 4 seconds.
C17_Witness ==
    \E r \in Reqs :
        /\ Ended(r) /\ IsSuccessText(gen[r])
        /\ calls[r] = 4 /\ sleeps[r] = <<1, 2, 4>>

\* All five sleeps made: 31 seconds.
C17_WitnessAll == \E r \in Reqs : Ended(r) /\ Sum(sleeps[r]) = 31

\* C18: a call that made attempts and ends without success returns the error
\* detail of its last attempt.
C18_LastErrorWins ==
    \A r \in Reqs :
        (Ended(r) /\ Returned(r) /\ calls[r] >= 1 /\ gen[r].text = None) =>
            /\ gen[r].err = AttemptResult(last_outcome[r]).err
            /\ gen[r].err = last_err[r]

\* A second attempt refused with 401 after a first attempt that failed
\* otherwise: the 401 is what the call returns.
C18_Witness ==
    \E r \in Reqs :
        /\ Ended(r) /\ calls[r] = 2
        /\ last_outcome[r].status = 401
        /\ gen[r].err.status = 401

\* C19: the result 'Unknown Gemini failure.' is never handed back: whenever the
\* loop is between attempts or has been left without a success, a failure is
\* recorded.
C19_UnknownUnreachable ==
    \A r \in Reqs :
        /\ gen[r].err.message # "Unknown Gemini failure."
        /\ (calls[r] >= 1 /\ pc[r] \in {"loop", "sleep", "post"}) => ~last_err[r].isNone
        /\ (Returned(r) /\ gen[r].text = None) => ~gen[r].err.isNone

\* The loop left by exhaustion after six empty answers.
C19_Witness ==
    \E r \in Reqs :
        /\ Returned(r) /\ gen[r].text = None
        /\ calls[r] = 6 /\ gen[r].err = EmptyErr

\* ---------------------------------------------- claims on concurrent use
Locals(r) ==
    <<pc[r], header[r], is_json[r], body[r], request_id[r], prompt[r], session[r],
      attempt[r], last_err[r], calls[r], sleeps[r], last_outcome[r], gen[r],
      sanitizer_runs[r], resp[r]>>

\* The response a request gets when it runs alone, from its own body, its own
\* request id and the outcome of its own last attempt.
C15_OwnResponse(r) ==
    LET v == Validate(is_json[r], body[r], request_id[r])
        a == AttemptResult(last_outcome[r])
    IN IF v # NoResponse THEN v
       ELSE IF calls[r] = 0
       THEN _json_error(502, "AI provider error. Please try again.", request_id[r],
                        MissingKeyErr)
       ELSE IF a.next = "raise"
       THEN _json_error(500, "Internal server error.", request_id[r], NoErr)
       ELSE IF a.next = "return"
       THEN Response(200, "", request_id[r], NoErr, sanitize_tutor_output(a.text))
       ELSE _json_error(502, "AI provider error. Please try again.", request_id[r], a.err)

C15_OwnInputsDecide ==
    \A r \in Reqs :
        /\ pc[r] = "done" => resp[r] = <<C15_OwnResponse(r)>>
        /\ (calls[r] >= 1 /\ pc[r] \in {"loop", "sleep", "post"}) =>
              /\ last_err[r] = AttemptResult(last_outcome[r]).err
              /\ attempt[r] \in {calls[r], calls[r] + 1}

C15_Frame ==
    /\ \E r \in Reqs : \A q \in Reqs \ {r} : Locals(q)' = Locals(q)
    /\ UNCHANGED config

\* C15: with two requests in flight in any interleaving, a step changes the
\* attempt index, the recorded failure and every other local of one request
\* only, and of the module's state only the pooled session handle; each
\* request's response is the one its own body and the outcomes of its own
\* attempts give when it runs alone.
C15_RequestsIndependent == []C15_OwnInputsDecide /\ [][C15_Frame]_vars

\* Both requests answered, one with 200 and one with 502, after their calls
\* overlapped (each created a session) and each made several attempts.
C15_Witness ==
    /\ pc[1] = "done" /\ pc[2] = "done"
    /\ sessions_created = 2
    /\ calls[1] = 3 /\ calls[2] = 2
    /\ resp[1][1].status = 200 /\ resp[2][1].status = 502

\* ------------------------------------------- claims on unexpected failures
\* An exception was raised in ask_ai for request r: by body.get on a body that
\* is no object, or out of the provider client.
C21_Raised(r) ==
    \/ is_json[r] /\ BodyRaises(body[r]) # "none"
    \/ gen[r].kind = "raise"

\* C21: a request in whose handling an exception was raised after the request
\* id was chosen is answered with 500, the message 'Internal server error.' and
\* the request id, without details and without any text of the exception.
C21_GenericInternalError ==
    \A r \in Reqs :
        (pc[r] = "done" /\ C21_Raised(r)) =>
            /\ request_id[r] # ""
            /\ resp[r] = <<Response(500, "Internal server error.", request_id[r], NoErr, None)>>
            /\ TheResponse(r).details.isNone
            /\ TheResponse(r).details.exception = "absent"

\* A JSON body that is no object, sent with a caller's id: body.get raises.
C21_Witness ==
    \E r \in Reqs :
        /\ pc[r] = "done" /\ is_json[r]
        /\ body[r].kind = "nonobject" /\ BodyRaises(body[r]) = "AttributeError"
        /\ header[r] = "caller-7"
        /\ TheResponse(r).status = 500 /\ TheResponse(r).request_id = "caller-7"

\* ---------------------------------------------- claims on the pooled session
\* C22: at most one Session is ever created, every call that got a session got
\* the one the module holds, and no two requests are past the `is None` check
\* together, each about to create a session.
C22_OneSharedSession ==
    /\ sessions_created <= 1
    /\ \A r \in Reqs : session[r] # 0 => session[r] = http_session
    /\ Cardinality({r \in Reqs : pc[r] = "session_new"}) <= 1

\* ------------------------------------------------- claims on idempotence
SanAgain == san.state = "again"

C23_ShortTruncated(c) ==
    ExpectSuspicious(c) >= 12 /\ Len(splitlines(ExpectRedacted(c))) < 120

C23_WitnessTwice ==
    /\ SanAgain
    /\ Len(splitlines(san.out)) < 120
    /\ Cardinality({i \in 1..Len(san.out2) : san.out2[i] = "TRUNC"}) = 2

\* An output with a replaced block and no notice, unchanged by the second pass.
C23_WitnessRedacted ==
    SanAgain /\ HasToken(san.out, "OMIT") /\ ~Truncated(san.out) /\ san.out2 = san.out

====
